---- MODULE Spec2Model ----
(***************************************************************************)
(* A model of @borderless/worker-sentry (src/src/index.ts): the stack      *)
(* extractor getErrorStack, the Sentry client (constructor and             *)
(* captureException), the global V8 hook Error.prepareStackTrace and the   *)
(* transport function (this.fetch) with the promises it returns.           *)
(***************************************************************************)
EXTENDS Integers, Sequences, FiniteSets, TLC

(***************************************************************************)
(* Bounds of the model.                                                    *)
(***************************************************************************)
\* captureException calls made in one behaviour
MaxCalls == 2

(***************************************************************************)
(* JavaScript values.  Every value is a record of the same four fields so  *)
(* that any two values can be compared: kind, str (the text of a string or *)
(* number), props (the own properties of an object, in insertion order, as *)
(* <<key, value>> pairs) and items (the elements of an array).             *)
(***************************************************************************)
Undefined == [kind |-> "undefined", str |-> "", props |-> <<>>, items |-> <<>>]

Null == [kind |-> "null", str |-> "", props |-> <<>>, items |-> <<>>]

Str(s) == [kind |-> "string", str |-> s, props |-> <<>>, items |-> <<>>]

Num(s) == [kind |-> "number", str |-> s, props |-> <<>>, items |-> <<>>]

Bool(b) == [kind |-> "boolean", str |-> IF b THEN "true" ELSE "false", props |-> <<>>, items |-> <<>>]

Obj(ps) == [kind |-> "object", str |-> "", props |-> ps, items |-> <<>>]

Arr(is) == [kind |-> "array", str |-> "", props |-> <<>>, items |-> is]

\* the keys of an object, in property order (Object.keys)
Keys(o) == [i \in 1..Len(o.props) |-> o.props[i][1]]

HasKey(o, k) == \E i \in 1..Len(o.props) : o.props[i][1] = k

\* property access o.k: the value of the property, undefined when absent
Get(o, k) ==
  IF HasKey(o, k)
    THEN o.props[CHOOSE i \in 1..Len(o.props) : o.props[i][1] = k][2]
    ELSE Undefined

\* optional chaining o?.k: undefined when o itself is undefined
OptGet(o, k) == IF o.kind = "undefined" THEN Undefined ELSE Get(o, k)

\* the position of key k among the keys of o, 0 when absent
KeyIndex(o, k) ==
  IF HasKey(o, k) THEN CHOOSE i \in 1..Len(o.props) : o.props[i][1] = k ELSE 0

(***************************************************************************)
(* JSON.stringify followed by the receiver's parse (request.json()): the   *)
(* JSON document of a value.  A property whose value is undefined is       *)
(* omitted, an undefined array element becomes null, everything else is    *)
(* kept in order.                                                          *)
(***************************************************************************)
RECURSIVE JSONStringify(_)
\* mutant: a property whose value is undefined is rendered as null
JSONStringifyNulls(v) ==
  CASE v.kind = "object" ->
         Obj([i \in 1..Len(v.props) |->
               <<v.props[i][1],
                 IF v.props[i][2].kind = "undefined" THEN Null
                 ELSE JSONStringify(v.props[i][2])>>])
    [] v.kind = "array" ->
         Arr([i \in 1..Len(v.items) |->
               IF v.items[i].kind = "undefined" THEN Null
               ELSE JSONStringify(v.items[i])])
    [] OTHER -> v

JSONStringify(v) ==
  CASE v.kind = "object" ->
         LET kept == SelectSeq(v.props, LAMBDA p : p[2].kind # "undefined")
         IN  Obj([i \in 1..Len(kept) |-> <<kept[i][1], JSONStringify(kept[i][2])>>])
    [] v.kind = "array" ->
         Arr([i \in 1..Len(v.items) |->
               IF v.items[i].kind = "undefined" THEN Null
               ELSE JSONStringify(v.items[i])])
    [] OTHER -> v

(***************************************************************************)
(* URLs.  A URL string is a sequence of tokens: the delimiters "/", "@",   *)
(* ":", "?" are tokens of their own, a scheme is one token ("https:") and  *)
(* every other token is a run of ordinary characters.                      *)
(***************************************************************************)
\* the first position >= from of a token of set D in s, Len(s) + 1 if none
FirstOf(s, from, D) ==
  IF \E i \in from..Len(s) : s[i] \in D
    THEN CHOOSE i \in from..Len(s) : s[i] \in D /\ \A j \in from..(i - 1) : s[j] \notin D
    ELSE Len(s) + 1

\* new URL(href) for a special scheme: scheme "//" [userinfo "@"] host path ["?" query]
ParseURL(href) ==
  LET authEnd  == FirstOf(href, 4, {"/", "?"})
      auth     == SubSeq(href, 4, authEnd - 1)
      at       == FirstOf(auth, 1, {"@"})
      userinfo == IF at <= Len(auth) THEN SubSeq(auth, 1, at - 1) ELSE <<>>
      colon    == FirstOf(userinfo, 1, {":"})
      pathEnd  == FirstOf(href, authEnd, {"?"})
      path     == SubSeq(href, authEnd, pathEnd - 1)
  IN  [protocol |-> href[1],
       username |-> SubSeq(userinfo, 1, colon - 1),
       password |-> SubSeq(userinfo, colon + 1, Len(userinfo)),
       host     |-> IF at <= Len(auth) THEN SubSeq(auth, at + 1, Len(auth)) ELSE auth,
       pathname |-> IF path = <<>> THEN <<"/">> ELSE path,
       search   |-> SubSeq(href, pathEnd, Len(href))]

\* url.href / request.url: the serialisation of a parsed URL
Href(u) ==
  <<u.protocol, "/", "/">>
    \o (IF u.username = <<>> /\ u.password = <<>> THEN <<>>
        ELSE u.username
               \o (IF u.password = <<>> THEN <<>> ELSE <<":">> \o u.password)
               \o <<"@">>)
    \o u.host \o u.pathname \o u.search

\* mutant: the path is built from the credential instead of the path component
StoreUrlFromUsername(sentryUrl) ==
  <<"https:", "/", "/", "sentry.io", "/", "api", "/">> \o sentryUrl.username \o <<"/", "store", "/">>

\* `https://sentry.io/api${this.sentryUrl.pathname}/store/`
StoreUrl(sentryUrl) ==
  <<"https:", "/", "/", "sentry.io", "/", "api">> \o sentryUrl.pathname \o <<"/", "store", "/">>

\* the X-Sentry-Auth header value, ending in sentry_key=${this.sentryUrl.username}
SentryAuth(sentryUrl) ==
  <<"Sentry sentry_version=7, sentry_client=Cloudflare-Worker/1.0, sentry_key=">> \o sentryUrl.username

(***************************************************************************)
(* V8 call sites and the stack-trace API.                                  *)
(* A call site is a record: fn (the function it runs, used to find         *)
(* constructorOpt), functionName, fileName, lineNumber, columnNumber (JS   *)
(* values, null where V8 has none), native, and this (what getThis()       *)
(* returns: "undefined", "object", or "nullproto" for an object without    *)
(* a toString, which String() cannot convert).                             *)
(***************************************************************************)
CallSite(fn, name, file, line, col, native, this) ==
  [fn |-> fn, functionName |-> name, fileName |-> file, lineNumber |-> line,
   columnNumber |-> col, native |-> native, this |-> this]

\* the source file of the module, and the test file beside it
ModuleFile == "/worker-sentry/src/index.ts"

TestFile == "/worker-sentry/src/index.spec.ts"

\* the frames of getErrorStack and of captureException while getErrorStack runs
GetErrorStackSite ==
  CallSite("getErrorStack", Str("getErrorStack"), Str(ModuleFile), Num("42"), Num("9"), FALSE, "undefined")

CaptureExceptionSite ==
  CallSite("captureException", Str("captureException"), Str(ModuleFile), Num("183"), Num("27"), FALSE, "object")

\* Error.captureStackTrace(error, constructorOpt): the frames below the
\* topmost call of constructorOpt (every frame when it is not on the stack)
\* mutant: every frame of a file in the module's directory is dropped
CaptureStackTraceSkipModule(stack, constructorOpt) ==
  SelectSeq(stack, LAMBDA f : f.fileName \notin {Str(ModuleFile), Str(TestFile)})

CaptureStackTrace(stack, constructorOpt) ==
  LET top == FirstOf([i \in 1..Len(stack) |-> stack[i].fn], 1, {constructorOpt})
  IN  IF top <= Len(stack) THEN SubSeq(stack, top + 1, Len(stack)) ELSE stack

(***************************************************************************)
(* Error.prepareStackTrace.  The hook is a record: base is the hook the    *)
(* host installed ("undefined": none, "returns": one that formats,         *)
(* "throws": one that raises) and wrappers counts the temporary hooks of   *)
(* getErrorStack chained on top of it (each calls the hook it replaced).   *)
(***************************************************************************)
Hook(base, wrappers) == [base |-> base, wrappers |-> wrappers]

\* the temporary hook of lines 37-40, closing over the hook it replaces
TemporaryHook(prepareStackTrace) == Hook(prepareStackTrace.base, prepareStackTrace.wrappers + 1)

\* whether calling hook h raises: every wrapper chains to the one below
\* (prepareStackTrace?.(error, v8Trace)), down to the host's hook
HookThrows(h) == h.base = "throws"

(***************************************************************************)
(* getErrorStack(error), lines 33-47.  hook is Error.prepareStackTrace at  *)
(* entry, stack the call stack at the call of Error.captureStackTrace      *)
(* (innermost first), formats whether reading error.stack runs the trace   *)
(* formatter for this error.  The result tells whether the call threw,     *)
(* whether `trace` was assigned, its value, and the hook left installed.   *)
(***************************************************************************)
getErrorStack(hook, stack, formats) ==
  LET prepareStackTrace == hook
      temporary == TemporaryHook(prepareStackTrace)
      v8Trace   == CaptureStackTrace(stack, "getErrorStack")
  IN  IF formats /\ HookThrows(prepareStackTrace)
        \* line 43 raises out of the temporary hook: line 44 is not reached
        THEN [threw |-> TRUE, assigned |-> TRUE, trace |-> v8Trace, hook |-> temporary]
        ELSE [threw |-> FALSE, assigned |-> formats,
              trace |-> IF formats THEN v8Trace ELSE <<>>,
              hook |-> prepareStackTrace]

\* String(callSite.getThis()) raises for an object that has no toString
StringThrows(this) == this = "nullproto"

String(this) == IF this = "object" THEN "[object Object]" ELSE "undefined"

\* the frame object of lines 183-192
Frame(callSite) ==
  Obj(<< <<"function", callSite.functionName>>,
         <<"filename", callSite.fileName>>,
         <<"lineno", callSite.lineNumber>>,
         <<"colno", callSite.columnNumber>>,
         <<"in_app", Bool(~callSite.native)>>,
         <<"vars", Obj(<< <<"this", Str(String(callSite.this))>> >>)>> >>)

\* getErrorStack(error).map(...) raises when the value is not an array
\* (trace never assigned) or when a frame's String(getThis()) raises
MapThrows(es) ==
  ~es.assigned \/ \E i \in 1..Len(es.trace) : StringThrows(es.trace[i].this)

(***************************************************************************)
(* The event document, lines 170-217.                                      *)
(***************************************************************************)
\* mutant: the error's name and message change places
ExceptionValuesSwapped(error, frames) ==
  Arr(<< Obj(<< <<"type", Str(error.message)>>,
                <<"value", Str(error.name)>>,
                <<"stacktrace", Obj(<< <<"frames", Arr(frames)>> >>)>> >>) >>)

\* exception.values, lines 177-195
ExceptionValues(error, frames) ==
  Arr(<< Obj(<< <<"type", Str(error.name)>>,
                <<"value", Str(error.message)>>,
                <<"stacktrace", Obj(<< <<"frames", Arr(frames)>> >>)>> >>) >>)

\* the object literal handed to JSON.stringify
Body(error, options, frames) ==
  LET user    == Get(options, "user")
      request == Get(options, "request")
  IN  Obj(<< <<"logger", Str("worker")>>,
             <<"platform", Str("javascript")>>,
             <<"level", Get(options, "level")>>,
             <<"extra", Get(options, "extra")>>,
             <<"fingerprint", Get(options, "fingerprint")>>,
             <<"exception", Obj(<< <<"values", ExceptionValues(error, frames)>> >>)>>,
             <<"tags", Get(options, "tags")>>,
             <<"user", Obj(<< <<"id", OptGet(user, "id")>>,
                              <<"email", OptGet(user, "email")>>,
                              <<"username", OptGet(user, "username")>>,
                              <<"ip_address", OptGet(user, "ip")>> >>)>>,
             <<"request", Obj(<< <<"url", OptGet(request, "url")>>,
                                 <<"method", OptGet(request, "method")>>,
                                 <<"headers", OptGet(request, "headers")>>,
                                 <<"query_string", OptGet(request, "query")>>,
                                 <<"cookies", OptGet(request, "cookies")>>,
                                 <<"env", OptGet(request, "env")>> >>)>>,
             <<"server_name", Get(options, "serverName")>>,
             <<"transaction", Get(options, "transaction")>>,
             <<"release", Get(options, "release")>>,
             <<"dist", Get(options, "dist")>>,
             <<"environment", Get(options, "environment")>> >>)

\* new Request(url, {method, headers, body}), lines 160-220; url and json
\* are what the receiver reads back (request.url, await request.json())
Request(sentryUrl, error, options, frames) ==
  [url     |-> Href(ParseURL(StoreUrl(sentryUrl))),
   method  |-> "POST",
   headers |-> << <<"Content-Type", <<"application/json">> >>,
                  <<"User-Agent", <<"Cloudflare-Worker/1.0">> >>,
                  <<"X-Sentry-Auth", SentryAuth(sentryUrl)>> >>,
   json    |-> JSONStringify(Body(error, options, frames))]

\* mutant: a failed extraction degrades to an empty frame list and is sent
DispatchDegraded(sentryUrl, error, options, es) ==
  IF es.threw \/ MapThrows(es)
    THEN << Request(sentryUrl, error, options, <<>>) >>
    ELSE << Request(sentryUrl, error, options, [i \in 1..Len(es.trace) |-> Frame(es.trace[i])]) >>

\* mutant: the request is handed to the transport a second time (a retry)
DispatchTwice(sentryUrl, error, options, es) ==
  IF es.threw \/ MapThrows(es)
    THEN <<>>
    ELSE LET r == Request(sentryUrl, error, options, [i \in 1..Len(es.trace) |-> Frame(es.trace[i])])
         IN  <<r, r>>

\* The requests captureException hands to this.fetch, in order (lines
\* 160-222): the arguments of new Request are evaluated first, so an
\* exception out of getErrorStack or out of the frame mapping leaves the
\* function before a request exists; otherwise line 222 calls fetch once.
Dispatch(sentryUrl, error, options, es) ==
  IF es.threw \/ MapThrows(es)
    THEN <<>>
    ELSE << Request(sentryUrl, error, options, [i \in 1..Len(es.trace) |-> Frame(es.trace[i])]) >>

\* mutant: the caller gets a promise derived from the transport's
\* (as .then/.catch would return), not the transport's own
ReturnDerived(promise) == promise + 1

\* `return this.fetch(request)`, line 222: the transport's own result
Return(promise) == promise

(***************************************************************************)
(* The inputs the model draws from.                                        *)
(***************************************************************************)
Clients == {1, 2}

\* connection strings: scheme "//" userinfo "@" host path query
DsnOf(user, host, path, query) == <<"https:", "/", "/">> \o user \o <<"@">> \o host \o path \o query

\* the connection string of the tests and of the README
TestDsn == DsnOf(<<"123">>, <<"456.ingest.sentry.io">>, <<"/", "789">>, <<>>)

DsnUsers == {<<"123">>, <<"abc", ":", "pw">>}

DsnHosts == {<<"456.ingest.sentry.io">>, <<"example.com">>}

DsnPaths == {<<>>, <<"/", "789">>, <<"/", "789", "/">>}

DsnQueries == {<<>>, <<"?", "q">>}

DsnSet ==
  { DsnOf(user, host, path, query) :
      user \in DsnUsers, host \in DsnHosts, path \in DsnPaths, query \in DsnQueries }

Error(name, message) == [name |-> name, message |-> message]

Errors == {Error("Error", "Boom!"), Error("TypeError", ""), Error("Boom!", "Error")}

\* the keys of CaptureExceptionOptions, lines 67-141
OptionKeys ==
  <<"level", "extra", "tags", "release", "dist", "environment", "serverName",
    "transaction", "modules", "user", "fingerprint", "request", "breadcrumbs">>

\* a value of the declared type for each option
SampleValue(k) ==
  CASE k = "level" -> Str("error")
    [] k = "extra" -> Obj(<< <<"test", Bool(TRUE)>> >>)
    [] k = "tags" -> Obj(<< <<"test", Str("test")>> >>)
    [] k = "modules" -> Obj(<< <<"jest", Str("27.0.0")>> >>)
    [] k = "user" -> Obj(<< <<"id", Str("u1")>>, <<"username", Str("ann")>>,
                            <<"email", Str("ann@example.com")>>, <<"ip", Str("1.2.3.4")>> >>)
    [] k = "fingerprint" -> Arr(<< Str("fp") >>)
    [] k = "request" -> Obj(<< <<"method", Str("GET")>>, <<"url", Str("https://example.com/")>>,
                               <<"headers", Obj(<< <<"accept", Str("*/*")>> >>)>>,
                               <<"query", Str("a=1")>>, <<"cookies", Str("c=1")>>,
                               <<"env", Obj(<< <<"REMOTE_ADDR", Str("1.2.3.4")>> >>)>> >>)
    [] k = "breadcrumbs" -> Arr(<< Obj(<< <<"type", Str("error")>>, <<"message", Str("error")>> >>) >>)
    [] OTHER -> Str("test")

NoOptions == Obj(<<>>)

\* the options of the test "should send all properties"
TestOptions ==
  Obj(<< <<"level", Str("error")>>,
         <<"release", Str("test")>>,
         <<"dist", Str("test")>>,
         <<"fingerprint", Arr(<<>>)>>,
         <<"environment", Str("production")>>,
         <<"serverName", Str("test")>>,
         <<"breadcrumbs", Arr(<< Obj(<< <<"type", Str("error")>>, <<"message", Str("error")>> >>) >>)>>,
         <<"transaction", Str("test")>>,
         <<"tags", Obj(<< <<"test", Str("test")>> >>)>>,
         <<"extra", Obj(<< <<"test", Bool(TRUE)>> >>)>> >>)

\* options that supply one key, every key, a partial user and request, and
\* a key whose value is explicitly undefined
SingleOption(k) == Obj(<< <<k, SampleValue(k)>> >>)

FullOptions == Obj([i \in 1..Len(OptionKeys) |-> <<OptionKeys[i], SampleValue(OptionKeys[i])>>])

PartialOptions ==
  Obj(<< <<"tags", Obj(<<>>)>>,
         <<"user", Obj(<< <<"ip", Str("1.2.3.4")>> >>)>>,
         <<"request", Obj(<< <<"url", Str("https://example.com/")>> >>)>> >>)

UndefinedLevel == Obj(<< <<"level", Undefined>>, <<"release", Str("1.0")>> >>)

OptionsSet ==
  {NoOptions, TestOptions, FullOptions, PartialOptions, UndefinedLevel}
    \cup { SingleOption(OptionKeys[i]) : i \in 1..Len(OptionKeys) }

\* call stacks of the caller of captureException, innermost frame first
\* the test: an anonymous async callback in the module's directory, run by
\* the test runner, above a native frame
TestStack ==
  << CallSite("it", Null, Str(TestFile), Num("21"), Num("37"), FALSE, "undefined"),
     CallSite("run", Str("run"), Str("/node_modules/jest-circus/run.js"), Num("63"), Num("9"), FALSE, "object"),
     CallSite("native", Str("processTicksAndRejections"), Null, Null, Null, TRUE, "undefined") >>

\* a worker's handler outside the module
WorkerStack ==
  << CallSite("handler", Str("handler"), Str("/app/worker.js"), Num("7"), Num("14"), FALSE, "undefined") >>

\* a caller that is a method of an object created with Object.create(null)
NullProtoStack ==
  << CallSite("report", Str("report"), Str("/app/worker.js"), Num("3"), Num("5"), FALSE, "nullproto") >>

CallerStacks == {TestStack, WorkerStack, NullProtoStack}

\* what the transport does with a request: return a promise, or raise
Transports == {"promise", "throws"}

Settlements == {"200", "500", "rejected"}

HookBases == {"undefined", "returns", "throws"}

(***************************************************************************)
(* The state.                                                              *)
(***************************************************************************)
VARIABLES
  dsn,                \* options.dsn each client was constructed with
  sentryUrl,          \* this.sentryUrl of each client
  prepareStackTrace,  \* the global Error.prepareStackTrace
  fetchCalls,         \* how many times each client's this.fetch was invoked
  promises,           \* the promises the transports returned, by id
  calls,              \* captureException calls made
  returned,           \* captureException calls that returned
  last,               \* the latest captureException call and what it did
  inflight            \* by promise id: the call whose request is in flight

vars == <<dsn, sentryUrl, prepareStackTrace, fetchCalls, promises, calls, returned, last, inflight>>

\* a call in flight: the lines of the frames of its callers (the stack its
\* error's trace was captured on), and the lines of the frames in the
\* request the transport holds
InFlight(callers, request) ==
  LET frames == Get(Get(Get(Get(request.json, "exception"), "values").items[1], "stacktrace"), "frames").items
  IN  [callers |-> [i \in 1..Len(callers) |-> callers[i].lineNumber],
       frames  |-> [i \in 1..Len(frames) |-> Get(frames[i], "lineno")]]

\* the entry of a promise that has settled
Landed == [callers |-> <<>>, frames |-> <<>>]

NoCall ==
  [outcome |-> "none", thrownBy |-> "", client |-> 0, error |-> Error("", ""),
   options |-> NoOptions, callers |-> <<>>, formats |-> FALSE, sent |-> <<>>,
   transportResult |-> 0, result |-> 0,
   hookBefore |-> Hook("undefined", 0), fetchBefore |-> 0]

\* new Sentry({dsn, fetch}), lines 150-153, for each client, in a host
\* whose Error.prepareStackTrace is one of bases
InitWith(dsns, bases) ==
  /\ dsn \in [Clients -> dsns]
  /\ sentryUrl = [c \in Clients |-> ParseURL(dsn[c])]
  /\ prepareStackTrace \in { Hook(b, 0) : b \in bases }
  /\ fetchCalls = [c \in Clients |-> 0]
  /\ promises = <<>>
  /\ calls = 0
  /\ returned = 0
  /\ last = NoCall
  /\ inflight = <<>>

\* sentry.captureException(error, options), lines 158-223, called on client
\* c from the stack callers; formats tells whether reading error.stack runs
\* the trace formatter, transport what this.fetch does when invoked
CaptureException(c, error, options, callers, formats, transport) ==
  /\ calls < MaxCalls
  /\ \E es \in {getErrorStack(prepareStackTrace, <<GetErrorStackSite, CaptureExceptionSite>> \o callers, formats)} :
    \E sent \in {Dispatch(sentryUrl[c], error, options, es)} :
    LET \* a transport that raises ends the call at its first invocation
        invoked == IF transport = "throws" /\ sent # <<>> THEN 1 ELSE Len(sent)
        created == IF transport = "throws" THEN 0 ELSE Len(sent)
        threw == sent = <<>> \/ transport = "throws"
    IN  /\ calls' = calls + 1
        /\ prepareStackTrace' = es.hook
        /\ fetchCalls' = [fetchCalls EXCEPT ![c] = @ + invoked]
        /\ promises' = promises \o [i \in 1..created |-> "pending"]
        /\ returned' = IF threw THEN returned ELSE returned + 1
        /\ last' = [outcome |-> IF threw THEN "threw" ELSE "returned",
                    thrownBy |-> IF es.threw THEN "hook"
                                 ELSE IF sent = <<>> THEN "map"
                                 ELSE IF transport = "throws" THEN "transport" ELSE "",
                    client |-> c, error |-> error, options |-> options,
                    callers |-> callers, formats |-> formats,
                    sent |-> SubSeq(sent, 1, invoked),
                    transportResult |-> IF threw THEN 0 ELSE Len(promises) + created,
                    result |-> IF threw THEN 0 ELSE Return(Len(promises) + created),
                    hookBefore |-> prepareStackTrace,
                    fetchBefore |-> fetchCalls[c]]
        /\ inflight' = inflight \o [i \in 1..created |-> InFlight(callers, sent[i])]
        /\ UNCHANGED <<dsn, sentryUrl>>

\* the transport's promise p settles: a response with a status, or a rejection
Settle(p, settlement) ==
  /\ p \in 1..Len(promises)
  /\ promises[p] = "pending"
  /\ promises' = [promises EXCEPT ![p] = settlement]
  /\ inflight' = [inflight EXCEPT ![p] = Landed]
  /\ UNCHANGED <<dsn, sentryUrl, prepareStackTrace, fetchCalls, calls, returned, last>>

(***************************************************************************)
(* Spec: two clients of the test's connection string in any host; no       *)
(* options, the test's and all of them; every stack, formatter and         *)
(* transport behaviour.                                                    *)
(***************************************************************************)
Init == InitWith({TestDsn}, HookBases)

Next ==
  \/ \E c \in Clients, error \in {Error("Error", "Boom!"), Error("TypeError", "")},
        options \in {NoOptions, TestOptions, FullOptions}, callers \in CallerStacks,
        formats \in BOOLEAN, transport \in Transports :
       CaptureException(c, error, options, callers, formats, transport)
  \/ \E p \in 1..MaxCalls, settlement \in Settlements : Settle(p, settlement)

Spec == Init /\ [][Next]_vars

(***************************************************************************)
(* SpecDoc: one client in a host without a hook; every error, options      *)
(* object and caller stack.                                                *)
(***************************************************************************)
InitDoc == InitWith({TestDsn}, {"undefined"})

NextDoc ==
  \/ \E error \in Errors, options \in OptionsSet, callers \in CallerStacks :
       CaptureException(1, error, options, callers, TRUE, "promise")
  \/ \E p \in 1..MaxCalls, settlement \in Settlements : Settle(p, settlement)

SpecDoc == InitDoc /\ [][NextDoc]_vars

(***************************************************************************)
(* SpecUrl: two clients, each constructed with any connection string.      *)
(***************************************************************************)
InitUrl == InitWith(DsnSet, {"undefined"})

NextUrl ==
  \/ \E c \in Clients :
       CaptureException(c, Error("Error", "Boom!"), NoOptions, TestStack, TRUE, "promise")
  \/ \E p \in 1..MaxCalls, settlement \in Settlements : Settle(p, settlement)

SpecUrl == InitUrl /\ [][NextUrl]_vars

(***************************************************************************)
(* SpecTasks: the tasks of a cooperative host.  Every action is one task   *)
(* run to completion: a captureException call (lines 158-223 hold no       *)
(* await), the settling of a transport promise, and unrelated host code    *)
(* that assigns the global hook.  Every state is a point where some other  *)
(* task may run and read Error.prepareStackTrace.                          *)
(***************************************************************************)
\* host code assigns Error.prepareStackTrace, the global read at line 34
InstallHook(base) ==
  /\ prepareStackTrace # Hook(base, 0)
  /\ prepareStackTrace' = Hook(base, 0)
  /\ UNCHANGED <<dsn, sentryUrl, fetchCalls, promises, calls, returned, last, inflight>>

InitTasks == InitWith({TestDsn}, HookBases)

NextTasks ==
  \/ \E c \in Clients, error \in {Error("Error", "Boom!"), Error("TypeError", "")},
        callers \in CallerStacks, formats \in BOOLEAN, transport \in Transports :
       CaptureException(c, error, NoOptions, callers, formats, transport)
  \/ \E p \in 1..MaxCalls, settlement \in Settlements : Settle(p, settlement)
  \/ \E base \in HookBases : InstallHook(base)

SpecTasks == InitTasks /\ [][NextTasks]_vars

(***************************************************************************)
(* What the latest call handed to the transport.                           *)
(***************************************************************************)
Sent == last.outcome = "returned"

SentRequest == last.sent[1]

Doc == last.sent[1].json

DocException == Get(Doc, "exception")

DocFrames == Get(Get(Get(DocException, "values").items[1], "stacktrace"), "frames").items

Range(f) == { f[i] : i \in DOMAIN f }

\* an option counts as supplied when the caller gave it a value
Supplied(o, k) == Get(o, k).kind # "undefined"

(***************************************************************************)
(* C1.  Every captureException call that returns invokes the client's      *)
(* transport exactly once, with one request built from that call's error;  *)
(* after N calls that all returned, the transports were invoked N times.   *)
(***************************************************************************)
C1_OneTransportCallPerCall ==
  /\ Sent =>
       /\ Len(last.sent) = 1
       /\ fetchCalls[last.client] = last.fetchBefore + 1
       /\ Get(DocException, "values").items[1].props[1] = <<"type", Str(last.error.name)>>
       /\ Get(DocException, "values").items[1].props[2] = <<"value", Str(last.error.message)>>
  /\ calls = returned => fetchCalls[1] + fetchCalls[2] = returned

C1_Witness ==
  /\ Sent /\ calls = 2 /\ returned = 2
  /\ last.options = TestOptions
  /\ fetchCalls[last.client] = 2

(***************************************************************************)
(* C2.  What captureException returns is the promise the transport         *)
(* returned: the same promise, so it settles as the transport's does.      *)
(***************************************************************************)
C2_ReturnsTransportResult ==
  Sent =>
    /\ last.transportResult \in 1..Len(promises)
    /\ last.result = last.transportResult
    /\ last.result \in 1..Len(promises)
    /\ promises[last.result] = promises[last.transportResult]

C2_Witness == Sent /\ last.result \in 1..Len(promises) /\ promises[last.result] = "rejected"

(***************************************************************************)
(* C3.  Every option the caller supplies appears with its value in the     *)
(* emitted document, and supplied breadcrumbs appear under the top-level   *)
(* key "breadcrumbs" between "request" and "server_name".                  *)
(***************************************************************************)
DocKeyOf(k) == IF k = "serverName" THEN "server_name" ELSE k

SubKeyOf(k) == CASE k = "ip" -> "ip_address" [] k = "query" -> "query_string" [] OTHER -> k

C3_SuppliedFieldsEmitted ==
  Sent =>
    /\ \A k \in Range(OptionKeys) :
         Supplied(last.options, k) =>
           /\ HasKey(Doc, DocKeyOf(k))
           /\ IF k \in {"user", "request"}
                THEN \A sk \in Range(Keys(Get(last.options, k))) :
                       Get(Get(Doc, k), SubKeyOf(sk)) = Get(Get(last.options, k), sk)
                ELSE Get(Doc, DocKeyOf(k)) = Get(last.options, k)
    /\ Supplied(last.options, "breadcrumbs") =>
         /\ HasKey(Doc, "breadcrumbs")
         /\ KeyIndex(Doc, "request") < KeyIndex(Doc, "breadcrumbs")
         /\ HasKey(Doc, "server_name") => KeyIndex(Doc, "breadcrumbs") < KeyIndex(Doc, "server_name")

(***************************************************************************)
(* C4.  The top-level keys of the document appear in the fixed order;      *)
(* logger, platform, exception, user and request are always present, each  *)
(* other key is present exactly when its option was supplied, and never    *)
(* as null.                                                                *)
(***************************************************************************)
TopLevelOrder ==
  <<"logger", "platform", "level", "extra", "fingerprint", "exception", "tags", "user",
    "request", "server_name", "transaction", "release", "dist", "environment">>

AlwaysPresent == {"logger", "platform", "exception", "user", "request"}

OptionOf(k) == IF k = "server_name" THEN "serverName" ELSE k

C4_KeyOrderAndPresence ==
  Sent =>
    /\ SelectSeq(Keys(Doc), LAMBDA k : k \in Range(TopLevelOrder))
         = SelectSeq(TopLevelOrder, LAMBDA k : k \in AlwaysPresent \/ Supplied(last.options, OptionOf(k)))
    /\ Get(Doc, "logger") = Str("worker")
    /\ Get(Doc, "platform") = Str("javascript")
    /\ Get(Doc, "exception").kind = "object"
    /\ Get(Doc, "user").kind = "object"
    /\ Get(Doc, "request").kind = "object"
    /\ \A i \in 1..Len(Doc.props) : Doc.props[i][2].kind \notin {"null", "undefined"}

C4_Witness ==
  /\ Sent
  /\ last.options = PartialOptions
  /\ Keys(Doc) = <<"logger", "platform", "exception", "tags", "user", "request">>
  /\ Keys(Get(Doc, "request")) = <<"url">>

(***************************************************************************)
(* C5.  exception.values is a list of exactly one element, whose type is   *)
(* the error's name and whose value is the error's message.                *)
(***************************************************************************)
C5_ExceptionTypeAndValue ==
  Sent =>
    LET values == Get(DocException, "values")
    IN  /\ values.kind = "array"
        /\ Len(values.items) = 1
        /\ Get(values.items[1], "type") = Str(last.error.name)
        /\ Get(values.items[1], "value") = Str(last.error.message)

C5_Witness ==
  /\ Sent
  /\ last.error = Error("TypeError", "")
  /\ Get(Get(DocException, "values").items[1], "type") = Str("TypeError")

(***************************************************************************)
(* C6.  Every request is a POST to https://sentry.io/api<path>/store/      *)
(* where <path> is the path component of the connection string the client  *)
(* was constructed with ("/" when it has none), whatever its credential,   *)
(* host and query; the test's connection string gives /api/789/store/.     *)
(***************************************************************************)
C6_StoreUrlFromDsnPath ==
  Sent =>
    /\ SentRequest.method = "POST"
    /\ \A user \in DsnUsers, host \in DsnHosts, path \in DsnPaths, query \in DsnQueries :
         dsn[last.client] = DsnOf(user, host, path, query) =>
           /\ ParseURL(SentRequest.url).pathname
                = <<"/", "api">> \o (IF path = <<>> THEN <<"/">> ELSE path) \o <<"/", "store", "/">>
           /\ SentRequest.url
                = <<"https:", "/", "/", "sentry.io", "/", "api">>
                    \o (IF path = <<>> THEN <<"/">> ELSE path) \o <<"/", "store", "/">>
    /\ dsn[last.client] = TestDsn =>
         SentRequest.url = <<"https:", "/", "/", "sentry.io", "/", "api", "/", "789", "/", "store", "/">>

\* both clients have sent, from connection strings of one path that differ
\* in credential, host and query
C6_Witness ==
  /\ Sent /\ calls = 2 /\ fetchCalls[1] = 1 /\ fetchCalls[2] = 1
  /\ dsn[1] = TestDsn
  /\ dsn[2] = DsnOf(<<"abc", ":", "pw">>, <<"example.com">>, <<"/", "789">>, <<"?", "q">>)
  /\ last.client = 2
  /\ SentRequest.url = <<"https:", "/", "/", "sentry.io", "/", "api", "/", "789", "/", "store", "/">>

(***************************************************************************)
(* C7.  When captureException is called from code inside the module        *)
(* boundary, the frames of the document are the call chain that led to it  *)
(* (captureException's own frame, then the callers, none filtered away),   *)
(* so at least one frame's filename lies inside the module boundary.       *)
(***************************************************************************)
\* the boundary the test matches with /[\\/]worker-sentry[\\/]/
InModule(filename) == filename \in {Str(ModuleFile), Str(TestFile)}

C7_FramesIncludeCallChain ==
  (Sent /\ last.callers # <<>> /\ InModule(last.callers[1].fileName)) =>
    /\ \E i \in 1..Len(DocFrames) : InModule(Get(DocFrames[i], "filename"))
    /\ [i \in 1..Len(DocFrames) |-> Get(DocFrames[i], "filename")]
         = [i \in 1..(1 + Len(last.callers)) |-> (<<CaptureExceptionSite>> \o last.callers)[i].fileName]
    /\ \A i \in 1..Len(DocFrames) : Get(DocFrames[i], "function") # Str("getErrorStack")

C7_Witness ==
  /\ Sent
  /\ last.callers = TestStack
  /\ Len(DocFrames) = 4
  /\ Get(DocFrames[2], "filename") = Str(TestFile)
  /\ Get(DocFrames[4], "in_app") = Bool(FALSE)

(***************************************************************************)
(* C8.  After every captureException call, returned or raised,             *)
(* Error.prepareStackTrace has the value it had before the call.           *)
(***************************************************************************)
C8_HookRestored ==
  last.outcome # "none" => prepareStackTrace = last.hookBefore

(***************************************************************************)
(* C9.  When stack extraction raises during captureException (out of the   *)
(* hook, or out of the frame mapping), the call raises and the transport   *)
(* is not invoked: no request is handed to it.                             *)
(***************************************************************************)
ExtractionRaised ==
  LET es == getErrorStack(last.hookBefore, <<GetErrorStackSite, CaptureExceptionSite>> \o last.callers, last.formats)
  IN  es.threw \/ MapThrows(es)

C9_NoRequestWhenExtractionRaises ==
  (last.outcome # "none" /\ ExtractionRaised) =>
    /\ last.outcome = "threw"
    /\ last.sent = <<>>
    /\ last.result = 0
    /\ fetchCalls[last.client] = last.fetchBefore

\* the host's hook raised while the trace of the second call was generated,
\* after a first call had reached the transport
C9_Witness ==
  /\ last.outcome = "threw" /\ last.thrownBy = "hook"
  /\ last.formats /\ last.hookBefore.base = "throws"
  /\ calls = 2 /\ fetchCalls[1] + fetchCalls[2] = 0

(***************************************************************************)
(* C10.  When the temporary hook is never invoked (no captured trace),     *)
(* getErrorStack returns an empty sequence and captureException still      *)
(* completes: the document is sent with stacktrace.frames = [].            *)
(***************************************************************************)
C10_NoTraceSendsEmptyFrames ==
  (last.outcome # "none" /\ ~last.formats /\ last.thrownBy # "transport") =>
    /\ Sent
    /\ DocFrames = <<>>

(***************************************************************************)
(* C11.  While captureException calls are in flight (their transport       *)
(* promises pending), no task finds the temporary hook of getErrorStack    *)
(* installed in Error.prepareStackTrace, and the request of every call in  *)
(* flight carries the frames captured on that call's own stack.            *)
(***************************************************************************)
Pending == { p \in 1..Len(promises) : promises[p] = "pending" }

C11_HookSwapAtomic ==
  Pending # {} =>
    /\ prepareStackTrace.wrappers = 0
    /\ \A p \in Pending :
         inflight[p].frames = <<CaptureExceptionSite.lineNumber>> \o inflight[p].callers

====
